---- MODULE Spec2Model ----
(***************************************************************************)
(* The rotating FileHandler of alyu/logger (src/logger.go, lines 514-741). *)
(* One FileHandler, its file system (directory, inodes, file handles), the *)
(* goroutines that use it (callers of Write, rotateDaily loops, detached   *)
(* gzip tasks) and the callers of its policy setters and of Close.         *)
(***************************************************************************)
EXTENDS Integers, Sequences, FiniteSets, TLC

\* ---------------------------------------------------------------- bounds
NWriters == 2      \* concurrent callers of Write
MaxWrites == 3     \* Write calls in a run, all callers together
MaxLoops == 2      \* rotateDaily goroutines that can be started in a run
MaxFires == 2      \* fires of daily timers in a run
MaxSets == 1       \* calls of SetSize, SetRotate, SetCompress, SetSeq in a run
MaxToggles == 2    \* calls of SetDaily in a run
MaxFaults == 1     \* I/O failures the environment injects in a run
MaxRotate == 2     \* largest maxRotation a handler is built with
RecLen == 2        \* len(b) of every record handed to Write
MaxStack == 3      \* frames the goroutine stack holds before the runtime aborts
MaxHandlers == 3   \* handlers a logger has registered at a time
MaxMsgs == 2       \* messages logged through a logger in a run
NGetters == 2      \* goroutines that call Get
MaxGets == 2       \* calls of Get a goroutine makes in a run

\* ------------------------------------------------------ program constants
ByteMod == 256     \* seq and rotate are of type byte
defStartSeq == 1   \* the startSeq AddStdFileHandler and AddFileHandler pass

\* severity levels: EmergSeverity SeverityFilter = 1 << iota, and so on
EmergSeverity == 1
AlertSeverity == 2
CritSeverity == 4
ErrSeverity == 8
WarningSeverity == 16
NoticeSeverity == 32
InfoSeverity == 64
DebugSeverity == 128
AllSeverity ==
  EmergSeverity + AlertSeverity + CritSeverity + ErrSeverity + WarningSeverity
  + NoticeSeverity + InfoSeverity + DebugSeverity

NoopHandler == 0   \* the handler.NoopHandler a new logger writes to
HandlerIds == 1..MaxHandlers

LogNames == {"micro", "test"}   \* names Get is called with, not registered yet
Getters == 1..NGetters

Writers == 1..NWriters
Loops == (NWriters + 1)..(NWriters + MaxLoops)
Ctor == NWriters + MaxLoops + 1
Threads == 1..Ctor

Nil == 0           \* the nil *os.File, and the unheld mutex

\* names in the log directory: the live path, path.N and path.N.gz
Live == <<"live", 0>>
Rot(n) == <<"rot", n>>
Gz(n) == <<"gz", n>>

VARIABLES
  size, rotate, seq, compress, daily,   \* FileHandler policy fields
  written, out, mutex,                  \* FileHandler bytes written, handle, lock
  dir,       \* directory: set of <<name, inode>>
  files,     \* inode -> content, a sequence of <<caller, call no, bytes>>
  handles,   \* handle -> [ino, open, closes]
  cpc,       \* newFileHandler: "new", "rot", "ready", "failed"
  wpc, wn, wcalls,   \* Write per caller: position, n, calls started so far
  rl,        \* rotateLog per thread: [pc, name, f, err, at, renamed]
  dpc,       \* rotateDaily per loop: "none", "armed", "rot", "exited"
  gzq,       \* detached gzip tasks: set of sequence numbers to compress
  closepc, depth,    \* Close: position and recursion depth
  budget,    \* [writes, fires, sets, toggles, faults, closes] left in this run
  wobs,      \* per caller, observations of its last Write: [cum, rots, h, hopen, torn, err]
  hist,      \* observations of the run, written by the actions, never read
  lhandlers, \* Logger4go.handlers: sequence of handlers
  lwriters,  \* the writers of the io.MultiWriter behind Logger4go.Logger
  lfilter,   \* Logger4go.filter
  lrecv,     \* handler -> the messages its Write was called with, in order
  lmsgs,     \* the severities of the messages logged, in order
  loggers4go,  \* the registry: name -> instance, Nil when the name is absent
  mu,        \* the registry's lock: Nil, or the goroutine holding it for writing
  gpc,       \* GetWithFlags per goroutine: "idle", "miss", "locked"
  glg,       \* GetWithFlags per goroutine: [name, lg], its name and its lg
  gcalls,    \* calls of Get each goroutine has started
  ninst,     \* Logger4go instances created so far
  rets,      \* the <<name, instance>> pairs Get has returned
  now,       \* time.Now().Clock() as read by the daily loop: <<h, m, s>>
  delay      \* <<d>>, d the seconds the loop's timer is armed with; <<>> before

fhvars == <<size, rotate, seq, compress, daily, written, out, mutex, dir, files,
            handles, cpc, wpc, wn, wcalls, rl, dpc, gzq, closepc, depth, budget,
            wobs, hist>>
lgr == <<lhandlers, lwriters, lfilter, lrecv, lmsgs>>
reg == <<loggers4go, mu, gpc, glg, gcalls, ninst, rets>>
tmr == <<now, delay>>
vars == <<fhvars, lgr, reg, tmr>>

policy == <<size, rotate, compress, daily>>
fsys == <<dir, files, handles>>
writers == <<wpc, wn, wcalls>>
closer == <<closepc, depth>>

\* ------------------------------------------------------------ file system
Exists(name) == \E e \in dir : e[1] = name
Ino(name) == (CHOOSE e \in dir : e[1] = name)[2]
Names == {e[1] : e \in dir}

\* os.Rename(old, new): new is replaced if it exists
Rename(d, old, new) ==
  {e \in d : e[1] # old /\ e[1] # new} \cup {<<new, Ino(old)>>}

IdleRl == [pc |-> "idle", name |-> 0, f |-> Nil, err |-> FALSE, at |-> "nil",
           renamed |-> FALSE]
IdleObs == [cum |-> 0, rots |-> 0, h |-> Nil, hopen |-> FALSE, torn |-> FALSE,
            err |-> "nil"]

\* a rotateLog call is between its entry and its return
InRotate(t) == rl[t].pc \in {"begin", "rename", "open"}

Alive == closepc # "fatal"

\* ------------------------------------------------------------------ Init
\* What the environment does in a run: the calls of Write, the timer fires, the
\* calls of policy setters, the I/O failures and the calls of Close it may make.
Run(w, f, s, g, e, c) ==
  [writes |-> w, fires |-> f, sets |-> s, toggles |-> g, faults |-> e,
   closes |-> c]
Runs == { Run(MaxWrites, 0, 0, 0, 0, 0),
          Run(1, MaxFires, 0, 0, 0, 0),
          Run(1, 1, MaxSets, 0, 0, 0),
          Run(0, MaxFires, 0, MaxToggles, 0, 0),
          Run(MaxWrites - 1, 1, 0, MaxToggles - 1, 0, 0),
          Run(MaxWrites, 0, 0, 0, MaxFaults, 0),
          Run(1, 1, 0, 0, 0, 1) }
Sizes == {0, 2 * RecLen}
Rotates == 0..MaxRotate
StartSeqs == {defStartSeq}
\* what a previous run left in the directory, as sequences of names
Disks == { <<>>, <<Live>>, <<Live, Rot(1)>>, <<Live, Gz(1)>> }
OldBytes == <<0, 0, 1>>   \* content written by a previous run

\* GetWithFlags for a new name: newLogger(&handler.NoopHandler{}, ...) and
\* lg.filter = AllSeverity
NewLogger ==
  /\ lhandlers = <<>>
  /\ lwriters = <<NoopHandler>>
  /\ lfilter = AllSeverity
  /\ lrecv = [h \in HandlerIds |-> <<>>]
  /\ lmsgs = <<>>

\* var mu = &sync.RWMutex{}; var loggers4go = make(map[string]*Logger4go)
NewRegistry ==
  /\ loggers4go = [n \in LogNames |-> Nil]
  /\ mu = Nil
  /\ gpc = [g \in Getters |-> "idle"]
  /\ glg = [g \in Getters |-> [name |-> "micro", lg |-> Nil]]
  /\ gcalls = [g \in Getters |-> 0]
  /\ ninst = 0
  /\ rets = {}

\* the handler and the directory newFileHandler is called with: maxFileSize in
\* S, maxRotation in R, the directory one of D
InitOf(S, R, D) ==
  /\ size \in S
  /\ rotate \in R
  /\ seq \in StartSeqs
  /\ compress \in BOOLEAN
  /\ daily \in BOOLEAN
  /\ written = 0
  /\ out = Nil
  /\ mutex = Nil
  /\ \E d \in D :
       /\ dir = {<<d[i], i>> : i \in 1..Len(d)}
       /\ files = [i \in 1..Len(d) |-> <<OldBytes>>]
       /\ hist = [disk0 |-> {d[i] : i \in 1..Len(d)}, retired |-> <<>>,
                  clob |-> FALSE, overlap |-> FALSE, seq0 |-> 0,
                  everRot |-> rotate > 0, seqSet |-> FALSE, postRots |-> 0,
                  failed |-> 0, closeH |-> Nil, reSet |-> FALSE,
                  offRots |-> [l \in Loops |-> 0]]
  /\ handles = <<>>
  /\ cpc = "new"
  /\ wpc = [w \in Writers |-> "idle"]
  /\ wn = [w \in Writers |-> 0]
  /\ wcalls = [w \in Writers |-> 0]
  /\ rl = [t \in Threads |-> IdleRl]
  /\ dpc = [d \in Loops |-> "none"]
  /\ gzq = {}
  /\ closepc = "idle"
  /\ depth = 0
  /\ wobs = [w \in Writers |-> IdleObs]
  /\ NewLogger
  /\ NewRegistry

\* no clock has been read and no timer armed
TimerIdle == now = <<0, 0, 0>> /\ delay = <<>>

InitState == InitOf(Sizes, Rotates, Disks) /\ TimerIdle

Init == InitState /\ budget \in Runs

\* A handler built with daily rotation, no size limit and no compression whose
\* callers toggle SetDaily while they write and the timers fire; no other setter
\* is called, no I/O fails and Close is not called.
RaceRun == Run(MaxWrites - 1, MaxFires, 0, MaxToggles, 0, 0)
InitRace == InitState /\ budget = RaceRun /\ daily /\ size = 0 /\ ~compress

\* ------------------------------------------------------- newFileHandler
\* findSequence: the first sequence number from s on whose probe name is free;
\* fh.seq++ on a byte comes back to s after ByteMod steps, and the for {} loop
\* has no other exit: -1 stands for the loop that never ends.  The probes are
\* s, s+1, ..., s+fuel (mod ByteMod), taken in that order.
FindSeq(s, fuel) ==
  LET probe(n) == IF compress THEN Gz(n) ELSE Rot(n)
      free == {k \in 0..fuel : ~Exists(probe((s + k) % ByteMod))}
  IN  IF free = {} THEN 0 - 1
      ELSE (s + (CHOOSE k \in free : \A j \in free : k <= j)) % ByteMod

findSequence == FindSeq(seq, ByteMod)

\* fh := &FileHandler{...}; fh.findSequence(); then the call of fh.rotateLog()
NewFind ==
  /\ UNCHANGED <<lgr, reg, tmr>>
  /\ cpc = "new"
  /\ IF findSequence < 0
     THEN cpc' = "hang" /\ UNCHANGED <<seq, rl, hist>>
     ELSE /\ seq' = findSequence
          /\ cpc' = "rot"
          /\ rl' = [rl EXCEPT ![Ctor] = [IdleRl EXCEPT !.pc = "begin"]]
          /\ hist' = [hist EXCEPT !.seq0 = findSequence]
  /\ UNCHANGED <<policy, written, out, mutex, fsys, writers, dpc, gzq, closer,
                 budget, wobs>>

FirstLoop == NWriters + 1

\* the handler AddFileHandler gets from newFileHandler, among the handlers of
\* the logger
FileH == 1

\* faulty variant: the handler is registered whatever err is
ConstructedAlways(err) == TRUE
\* AddFileHandler: if err != nil { return nil, err }
Constructed(err) == ~err

\* AddFileHandler after NewFileHandler returned: registerHandler(l, fh) unless
\* err != nil
AddFileHandler(err) ==
  IF Constructed(err)
  THEN /\ lhandlers' = Append(lhandlers, FileH)
       /\ lwriters' = lhandlers'
       /\ UNCHANGED <<lfilter, lrecv, lmsgs>>
  ELSE UNCHANGED lgr

\* rotateLog has returned to newFileHandler, which returns to AddFileHandler
NewReturn ==
  /\ UNCHANGED <<reg, tmr>>
  /\ cpc = "rot"
  /\ rl[Ctor].pc = "done"
  /\ AddFileHandler(rl[Ctor].err)
  /\ IF rl[Ctor].err
     THEN cpc' = "failed" /\ UNCHANGED <<out, dpc>>
     ELSE /\ cpc' = "ready"
          /\ out' = rl[Ctor].f
          /\ dpc' = IF daily THEN [dpc EXCEPT ![FirstLoop] = "armed"] ELSE dpc
  /\ rl' = [rl EXCEPT ![Ctor] = IdleRl]
  /\ UNCHANGED <<policy, seq, written, mutex, fsys, writers, gzq, closer,
                 budget, wobs, hist>>

\* ------------------------------------------------------------ rotateLog
\* the threads that may be running rotateLog
Started(t) ==
  \/ t = Ctor /\ cpc = "rot"
  \/ t \in Writers /\ wpc[t] = "rot"
  \/ t \in Loops /\ dpc[t] = "rot"

CloseHandle(hs, h) ==
  IF h = Nil THEN hs
  ELSE [hs EXCEPT ![h] = [@ EXCEPT !.open = FALSE, !.closes = @ + 1]]

\* faulty variant: the rename is made whatever fh.rotate is
RotateAlways == TRUE
\* if fh.rotate > 0
RotateEnabled == rotate > 0

\* faulty variant: fh.seq is never wrapped
WrapSeqNever == seq
\* if fh.seq > fh.rotate { fh.seq = 1 }: the number the retirement name is made of
WrapSeq == IF seq > rotate THEN 1 ELSE seq

\* faulty variant: the rename is tried without looking for the file
StatExistsAlways == TRUE
\* if _, err := os.Stat(fh.filePath); !os.IsNotExist(err)
StatExists == Exists(Live)

\* fh.out.Close(); if fh.rotate > 0: the wrap of fh.seq, rotateFileName and
\* os.Stat(fh.filePath)
RotBegin(t) ==
  /\ UNCHANGED <<lgr, reg, tmr>>
  /\ Alive /\ Started(t)
  /\ rl[t].pc = "begin"
  /\ handles' = CloseHandle(handles, out)
  /\ IF RotateEnabled
     THEN /\ seq' = WrapSeq
          /\ rl' = [rl EXCEPT ![t] = [@ EXCEPT !.name = WrapSeq,
                       !.pc = IF StatExists THEN "rename" ELSE "open"]]
     ELSE /\ seq' = seq
          /\ rl' = [rl EXCEPT ![t] = [@ EXCEPT !.pc = "open"]]
  /\ wobs' = IF t \in Writers
             THEN [wobs EXCEPT ![t] = [@ EXCEPT !.rots = @ + 1]] ELSE wobs
  /\ hist' = [hist EXCEPT !.overlap = @ \/ \E u \in Threads \ {t} : InRotate(u),
                           !.postRots = IF t = Ctor THEN @ ELSE @ + 1]
  /\ UNCHANGED <<policy, written, out, mutex, dir, files, cpc, writers, dpc,
                 gzq, closer, budget>>

\* faulty variant: no compression is started
LaunchNever(q, n) == q
\* if fh.compress { go compress(rotateFileName) }: the tasks after the rename to
\* path.n, q being the tasks before it
Launch(q, n) == IF compress THEN q \cup {n} ELSE q

\* faulty variant: fh.seq stays where it is
NextSeqStuck(s) == s
\* fh.seq++ on a byte
NextSeq(s) == (s + 1) % ByteMod

\* os.Rename(fh.filePath, rotateFileName) and what follows a successful rename:
\* go compress(rotateFileName) when fh.compress, and fh.seq++
RotRename(t) ==
  /\ UNCHANGED <<lgr, reg, tmr>>
  /\ Alive /\ Started(t)
  /\ rl[t].pc = "rename"
  /\ \/ \* the rename succeeds
        /\ Exists(Live)
        /\ dir' = Rename(dir, Live, Rot(rl[t].name))
        /\ gzq' = Launch(gzq, rl[t].name)
        /\ seq' = NextSeq(seq)
        /\ rl' = [rl EXCEPT ![t] = [@ EXCEPT !.pc = "open", !.renamed = TRUE]]
        /\ hist' = [hist EXCEPT
                      !.retired = Append(@, rl[t].name),
                      !.clob = @ \/ (t = Ctor /\ Exists(Rot(rl[t].name)))]
        /\ UNCHANGED budget
     \/ \* the rename fails: the source is gone since os.Stat, or an I/O error
        /\ ~Exists(Live) \/ budget.faults > 0
        /\ budget' = IF Exists(Live)
                     THEN [budget EXCEPT !.faults = @ - 1] ELSE budget
        /\ rl' = [rl EXCEPT ![t] = [@ EXCEPT !.pc = "done", !.f = Nil,
                                               !.err = TRUE, !.at = "rename"]]
        /\ UNCHANGED <<dir, gzq, seq, hist>>
  /\ UNCHANGED <<policy, written, out, mutex, files, handles, cpc, writers,
                 dpc, closer, wobs>>

\* os.OpenFile(fh.filePath, O_WRONLY|O_APPEND|O_CREATE, 0640)
RotOpen(t) ==
  /\ UNCHANGED <<lgr, reg, tmr>>
  /\ Alive /\ Started(t)
  /\ rl[t].pc = "open"
  /\ \/ \* opened, and created when absent
        /\ IF Exists(Live)
           THEN /\ handles' = Append(handles, [ino |-> Ino(Live), open |-> TRUE,
                                               closes |-> 0])
                /\ UNCHANGED <<dir, files>>
           ELSE /\ files' = Append(files, <<>>)
                /\ dir' = dir \cup {<<Live, Len(files) + 1>>}
                /\ handles' = Append(handles, [ino |-> Len(files) + 1,
                                               open |-> TRUE, closes |-> 0])
        /\ rl' = [rl EXCEPT ![t] = [@ EXCEPT !.pc = "done",
                                     !.f = Len(handles) + 1, !.err = FALSE]]
        /\ UNCHANGED budget
     \/ \* the open fails
        /\ budget.faults > 0
        /\ budget' = [budget EXCEPT !.faults = @ - 1]
        /\ rl' = [rl EXCEPT ![t] = [@ EXCEPT !.pc = "done", !.f = Nil,
                                               !.err = TRUE, !.at = "open"]]
        /\ UNCHANGED <<dir, files, handles>>
  /\ UNCHANGED <<policy, seq, written, out, mutex, cpc, writers, dpc, gzq,
                 closer, wobs, hist>>

\* ---------------------------------------------------------------- Write
\* faulty variant: the daily flag is not looked at
DailyOffAlways == TRUE
\* !fh.daily
DailyOff == ~daily

\* faulty variant: the threshold itself does not trigger
RotatePredGt(w) == ~daily /\ rotate > 0 /\ size > 0 /\ w > size
\* the size-rotation predicate, for the new value w of fh.written
RotatePred(w) == DailyOff /\ rotate > 0 /\ size > 0 /\ w >= size

\* faulty variant: the increment overwrites the count
AddWrittenLost(w, n) == n
\* fh.written += uint(n)
AddWritten(w, n) == w + n

\* a rotateLog call of another thread has closed fh.out and its result is not
\* stored in fh.out yet
Rotating(w) == \E u \in Threads \ {w} : rl[u].pc \in {"rename", "open", "done"}

\* faulty variant: neither early return is taken
WriteErrNone(n, e) == "nil"
\* if err != nil { return n, err }; if n < len(b) { return n, errors.New(...) }:
\* the error Write returns before it takes the mutex, "nil" when it goes on
WriteErr(n, e) == IF e THEN "write" ELSE IF n < RecLen THEN "short" ELSE "nil"

\* n, err = fh.out.Write(b), and the two early returns.  (*os.File).Write returns
\* a non-nil error whenever n # len(b): os.ErrInvalid on a nil file, os.ErrClosed
\* on a closed one, and the I/O error that cut the write short otherwise.
WriteOut(w) ==
  /\ UNCHANGED <<lgr, reg, tmr>>
  /\ Alive /\ cpc = "ready"
  /\ wpc[w] = "idle"
  /\ budget.writes > 0
  /\ wcalls' = [wcalls EXCEPT ![w] = @ + 1]
  /\ \E n \in 0..RecLen :
       LET usable == out # Nil /\ handles[out].open
           err == WriteErr(n, n < RecLen)
       IN /\ IF usable THEN n = RecLen \/ budget.faults > 0 ELSE n = 0
          /\ files' = IF usable /\ n > 0
                      THEN [files EXCEPT ![handles[out].ino] =
                              Append(@, <<w, wcalls[w] + 1, n>>)]
                      ELSE files
          /\ wn' = [wn EXCEPT ![w] = n]
          /\ wpc' = [wpc EXCEPT ![w] = IF err = "nil" THEN "lock" ELSE "idle"]
          /\ budget' = [budget EXCEPT !.writes = @ - 1,
                          !.faults = IF usable /\ n < RecLen THEN @ - 1 ELSE @]
          /\ hist' = [hist EXCEPT !.failed = IF err = "nil" THEN @ ELSE @ + 1]
          /\ wobs' = [wobs EXCEPT ![w] = [IdleObs EXCEPT !.h = out,
                        !.hopen = usable,
                        !.torn = (out # Nil /\ ~handles[out].open /\ Rotating(w)),
                        !.err = err]]
  /\ UNCHANGED <<policy, seq, written, out, mutex, dir, handles, cpc, rl, dpc,
                 gzq, closer>>

\* fh.mutex.Lock() and the first half of fh.written += uint(n): fh.written is
\* read and the sum is made; wobs[w].cum holds it until it is stored
WriteLock(w) ==
  /\ UNCHANGED <<lgr, reg, tmr>>
  /\ Alive
  /\ wpc[w] = "lock"
  /\ mutex = Nil
  /\ mutex' = w
  /\ wobs' = [wobs EXCEPT ![w] = [@ EXCEPT !.cum = AddWritten(written, wn[w])]]
  /\ wpc' = [wpc EXCEPT ![w] = "add"]
  /\ UNCHANGED <<policy, seq, written, out, fsys, cpc, wn, wcalls, rl, dpc, gzq,
                 closer, budget, hist>>

\* the second half of fh.written += uint(n), the store of the sum, and the
\* rotation predicate on the stored value
WriteAdd(w) ==
  /\ UNCHANGED <<lgr, reg, tmr>>
  /\ Alive
  /\ wpc[w] = "add"
  /\ written' = wobs[w].cum
  /\ IF RotatePred(written')
     THEN /\ wpc' = [wpc EXCEPT ![w] = "rot"]
          /\ rl' = [rl EXCEPT ![w] = [IdleRl EXCEPT !.pc = "begin"]]
     ELSE /\ wpc' = [wpc EXCEPT ![w] = "ret"]
          /\ UNCHANGED rl
  /\ UNCHANGED <<policy, seq, out, mutex, fsys, cpc, wn, wcalls, dpc, gzq,
                 closer, budget, wobs, hist>>

\* faulty variant: the error of rotateLog is not looked at
RotateFailedIgnored(err) == FALSE
\* if err != nil { return n, err }
RotateFailed(err) == err

\* rotateLog has returned to Write: return n, err, or fh.written = 0; fh.out = f
WriteRotated(w) ==
  /\ UNCHANGED <<lgr, reg, tmr>>
  /\ Alive
  /\ wpc[w] = "rot"
  /\ rl[w].pc = "done"
  /\ IF RotateFailed(rl[w].err)
     THEN UNCHANGED <<written, out>>
     ELSE written' = 0 /\ out' = rl[w].f
  /\ wpc' = [wpc EXCEPT ![w] = "ret"]
  /\ rl' = [rl EXCEPT ![w] = [IdleRl EXCEPT !.err = rl[w].err]]
  /\ wobs' = [wobs EXCEPT ![w] = [@ EXCEPT !.err = rl[w].at]]
  /\ hist' = [hist EXCEPT !.failed = IF RotateFailed(rl[w].err) THEN @ + 1 ELSE @]
  /\ UNCHANGED <<policy, seq, mutex, fsys, cpc, wn, wcalls, dpc, gzq, closer,
                 budget>>

\* faulty variant: the return on a failed rotation leaves the mutex locked
DeferredUnlockOnSuccess(m, err) == IF err THEN m ELSE Nil
\* defer fh.mutex.Unlock(): runs on every return after the Lock
DeferredUnlock(m, err) == Nil

\* the deferred fh.mutex.Unlock() and the return
WriteReturn(w) ==
  /\ UNCHANGED <<lgr, reg, tmr>>
  /\ Alive
  /\ wpc[w] = "ret"
  /\ mutex' = DeferredUnlock(mutex, rl[w].err)
  /\ wpc' = [wpc EXCEPT ![w] = "idle"]
  /\ rl' = [rl EXCEPT ![w] = IdleRl]
  /\ UNCHANGED <<policy, seq, written, out, fsys, cpc, wn, wcalls, dpc,
                 gzq, closer, budget, wobs, hist>>

\* ------------------------------------------------------- policy setters
Unlocked == Alive /\ cpc = "ready" /\ mutex = Nil
CanSet == Unlocked /\ budget.sets > 0
Spend == budget' = [budget EXCEPT !.sets = @ - 1]

SetSeqValues == {0, 1, MaxRotate + 1, ByteMod - 1}

\* faulty variant: a count that has reached the new size is started again
SetSizeWrittenReset(w, v) == IF v > 0 /\ w >= v THEN 0 ELSE w
\* SetSize is fh.size = size and nothing else: fh.written w stays
SetSizeWritten(w, v) == w

\* fh.mutex.Lock(); defer fh.mutex.Unlock(); fh.size = size
SetSize(v) ==
  /\ UNCHANGED <<lgr, reg, tmr>>
  /\ CanSet /\ Spend
  /\ size' = v
  /\ written' = SetSizeWritten(written, v)
  /\ UNCHANGED <<rotate, seq, compress, daily, out, mutex, fsys, cpc,
                 writers, rl, dpc, gzq, closer, wobs, hist>>

SetRotate(v) ==
  /\ UNCHANGED <<lgr, reg, tmr>>
  /\ CanSet /\ Spend
  /\ rotate' = v
  /\ hist' = [hist EXCEPT !.everRot = @ \/ v > 0, !.seqSet = TRUE]
  /\ UNCHANGED <<size, seq, compress, daily, written, out, mutex, fsys, cpc,
                 writers, rl, dpc, gzq, closer, wobs>>

SetCompress(v) ==
  /\ UNCHANGED <<lgr, reg, tmr>>
  /\ CanSet /\ Spend
  /\ compress' = v
  /\ UNCHANGED <<size, rotate, seq, daily, written, out, mutex, fsys, cpc,
                 writers, rl, dpc, gzq, closer, wobs, hist>>

SetSeq(v) ==
  /\ UNCHANGED <<lgr, reg, tmr>>
  /\ CanSet /\ Spend
  /\ seq' = v
  /\ hist' = [hist EXCEPT !.seqSet = TRUE]
  /\ UNCHANGED <<size, rotate, compress, daily, written, out, mutex, fsys, cpc,
                 writers, rl, dpc, gzq, closer, wobs>>

\* faulty variant: every SetDaily(true) starts a loop
TurnsOnAlways(v) == v
\* if !fh.daily && daily
TurnsOn(v) == ~daily /\ v

\* if !fh.daily && daily { go fh.rotateDaily() }; fh.daily = daily
SetDaily(v) ==
  /\ UNCHANGED <<lgr, reg, tmr>>
  /\ Unlocked /\ budget.toggles > 0
  /\ budget' = [budget EXCEPT !.toggles = @ - 1]
  /\ daily' = v
  /\ IF TurnsOn(v)
     THEN \E d \in Loops :
            /\ dpc[d] = "none"
            /\ \A e \in Loops : e < d => dpc[e] # "none"
            /\ dpc' = [dpc EXCEPT ![d] = "armed"]
     ELSE UNCHANGED dpc
  /\ hist' = [hist EXCEPT !.reSet = @ \/ (daily /\ v)]
  /\ UNCHANGED <<size, rotate, seq, compress, written, out, mutex, fsys, cpc,
                 writers, rl, gzq, closer, wobs>>

\* ---------------------------------------------------------- rotateDaily
\* case <-t.C: the call of fh.rotateLog()
DailyFire(d) ==
  /\ UNCHANGED <<lgr, reg, tmr>>
  /\ Alive
  /\ dpc[d] = "armed"
  /\ budget.fires > 0
  /\ budget' = [budget EXCEPT !.fires = @ - 1]
  /\ dpc' = [dpc EXCEPT ![d] = "rot"]
  /\ rl' = [rl EXCEPT ![d] = [IdleRl EXCEPT !.pc = "begin"]]
  /\ UNCHANGED <<policy, seq, written, out, mutex, fsys, cpc, writers, gzq,
                 closer, wobs, hist>>

\* faulty variant: the loop never looks at the flag
LoopBreaksNever == FALSE
\* if !fh.daily { break }
LoopBreaks == ~daily

\* faulty variant: the count is kept when the rotation failed
DailyResetOnSuccess(w, err) == IF err THEN w ELSE 0
\* fh.written = 0, after the if err != nil { ... } that only builds an error value
DailyReset(w, err) == 0

\* faulty variant: the handle in use is kept when rotateLog returned none
DailyOutKept(o, f) == IF f = Nil THEN o ELSE f
\* fh.out = f, f being nil when rotateLog returned an error
DailyOut(o, f) == f

\* rotateLog has returned: fh.written = 0; fh.out = f; if !fh.daily { break }
DailyAfter(d) ==
  /\ UNCHANGED <<lgr, reg, tmr>>
  /\ Alive
  /\ dpc[d] = "rot"
  /\ rl[d].pc = "done"
  /\ written' = DailyReset(written, rl[d].err)
  /\ out' = DailyOut(out, rl[d].f)
  /\ dpc' = [dpc EXCEPT ![d] = IF LoopBreaks THEN "exited" ELSE "armed"]
  /\ rl' = [rl EXCEPT ![d] = IdleRl]
  /\ hist' = [hist EXCEPT !.offRots[d] = IF daily THEN @ ELSE @ + 1]
  /\ UNCHANGED <<policy, seq, mutex, fsys, cpc, writers, gzq, closer, budget,
                 wobs>>

\* ------------------------------------------------------------- compress
\* faulty variant: the error of gzip takes the handler's file away
CompressErrFatal(f) == Nil
\* if err != nil { _ = fmt.Errorf("%v", err) }: an error value is built and
\* dropped, the handler (f is fh.out) is not touched
CompressErr(f) == f

\* exec.Command("gzip", "-f", filePath).Run(): path.N becomes path.N.gz, or
\* gzip fails and leaves the directory as it is
Gzip(n) ==
  /\ UNCHANGED <<lgr, reg, tmr>>
  /\ Alive
  /\ n \in gzq
  /\ gzq' = gzq \ {n}
  /\ \/ /\ Exists(Rot(n))
        /\ dir' = Rename(dir, Rot(n), Gz(n))
        /\ out' = out
     \/ /\ dir' = dir
        /\ out' = CompressErr(out)
  /\ UNCHANGED <<policy, seq, written, mutex, files, handles, cpc,
                 writers, rl, dpc, closer, budget, wobs, hist>>

\* ---------------------------------------------------------------- Close
\* if fh.out != nil { return fh.Close() }; return nil
\* Every frame reads fh.out again; the runtime aborts the process when the
\* goroutine stack is full.
Close ==
  /\ UNCHANGED <<lgr, reg, tmr>>
  /\ Alive /\ cpc = "ready"
  /\ \/ /\ closepc = "idle" /\ budget.closes > 0
        /\ budget' = [budget EXCEPT !.closes = @ - 1]
        /\ hist' = [hist EXCEPT !.closeH =
                      IF out # Nil /\ handles[out].open THEN out ELSE Nil]
     \/ closepc = "frame" /\ UNCHANGED <<budget, hist>>
  /\ IF out = Nil
     THEN closepc' = "returned" /\ depth' = 0
     ELSE IF depth = MaxStack
          THEN closepc' = "fatal" /\ depth' = depth
          ELSE closepc' = "frame" /\ depth' = depth + 1
  /\ UNCHANGED <<policy, seq, written, out, mutex, fsys, cpc, writers, rl,
                 dpc, gzq, wobs>>

\* ----------------------------------------------------------------- Next
Next ==
  \/ NewFind
  \/ NewReturn
  \/ \E t \in Threads : RotBegin(t)
  \/ \E t \in Threads : RotRename(t)
  \/ \E t \in Threads : RotOpen(t)
  \/ \E w \in Writers : WriteOut(w)
  \/ \E w \in Writers : WriteLock(w)
  \/ \E w \in Writers : WriteAdd(w)
  \/ \E w \in Writers : WriteRotated(w)
  \/ \E w \in Writers : WriteReturn(w)
  \/ \E v \in {0, RecLen} : SetSize(v)
  \/ \E v \in Rotates : SetRotate(v)
  \/ \E v \in BOOLEAN : SetCompress(v)
  \/ \E v \in SetSeqValues : SetSeq(v)
  \/ \E v \in BOOLEAN : SetDaily(v)
  \/ \E d \in Loops : DailyFire(d)
  \/ \E d \in Loops : DailyAfter(d)
  \/ \E n \in gzq : Gzip(n)
  \/ Close

Spec == Init /\ [][Next]_vars

\* the steps of the program in a run of RaceRun
NextRace ==
  \/ NewFind
  \/ NewReturn
  \/ \E t \in Threads : RotBegin(t)
  \/ \E t \in Threads : RotRename(t)
  \/ \E t \in Threads : RotOpen(t)
  \/ \E w \in Writers : WriteOut(w)
  \/ \E w \in Writers : WriteLock(w)
  \/ \E w \in Writers : WriteAdd(w)
  \/ \E w \in Writers : WriteReturn(w)
  \/ \E v \in BOOLEAN : SetDaily(v)
  \/ \E d \in Loops : DailyFire(d)
  \/ \E d \in Loops : DailyAfter(d)

SpecRace == InitRace /\ [][NextRace]_vars

\* A handler built with the largest maxRotation a byte holds, daily rotation, no
\* size limit and no compression, on an existing log file; the timer fires once
\* for every value of the byte and nothing else is called.
WrapRun == Run(0, ByteMod - 1, 0, 0, 0, 0)
InitWrap ==
  /\ InitOf({0}, {ByteMod - 1}, {<<Live>>}) /\ TimerIdle
  /\ budget = WrapRun /\ daily /\ ~compress

NextWrap ==
  \/ NewFind
  \/ NewReturn
  \/ \E t \in Threads : RotBegin(t)
  \/ \E t \in Threads : RotRename(t)
  \/ \E t \in Threads : RotOpen(t)
  \/ \E d \in Loops : DailyFire(d)
  \/ \E d \in Loops : DailyAfter(d)

SpecWrap == InitWrap /\ [][NextWrap]_vars

\* ------------------------------------------------------------ Logger4go
\* f & g on non-negative ints
RECURSIVE BitAnd(_, _)
BitAnd(f, g) ==
  IF f = 0 \/ g = 0 THEN 0
  ELSE (f % 2) * (g % 2) + 2 * BitAnd(f \div 2, g \div 2)

\* faulty variant: the filter is not looked at
IsFilterSetAlways(f) == TRUE
\* return f&l.filter == f
IsFilterSet(f) == BitAnd(f, lfilter) = f

\* l.handlers = append(l.handlers, handler); l.Logger = log.New(io.MultiWriter(
\* the handlers of l.handlers ...), l.Prefix(), l.Flags())
registerHandler(h) ==
  /\ Len(lhandlers) < MaxHandlers
  /\ \A i \in 1..Len(lhandlers) : lhandlers[i] # h
  /\ lhandlers' = Append(lhandlers, h)
  /\ lwriters' = lhandlers'
  /\ UNCHANGED <<lfilter, lrecv, lmsgs, fhvars, reg, tmr>>

\* l.handlers without its first element equal to h
RemoveFirst(hs, h) ==
  IF \E i \in 1..Len(hs) : hs[i] = h
  THEN LET i == CHOOSE j \in 1..Len(hs) :
                  hs[j] = h /\ \A k \in 1..(j - 1) : hs[k] # h
       IN SubSeq(hs, 1, i - 1) \o SubSeq(hs, i + 1, Len(hs))
  ELSE hs

\* for i, h := range l.handlers { if h == handler { l.handlers = append(...) } }
RemoveHandler(h) ==
  /\ lhandlers' = RemoveFirst(lhandlers, h)
  /\ UNCHANGED <<lwriters, lfilter, lrecv, lmsgs, fhvars, reg, tmr>>

SetFilter(f) ==
  /\ lfilter' = f
  /\ UNCHANGED <<lhandlers, lwriters, lrecv, lmsgs, fhvars, reg, tmr>>

\* (*multiWriter).Write of message m on the writers ws: each writer's Write is
\* called in turn, and the first error ends the loop; r is lrecv before the call,
\* bad the handlers whose Write returns an error
RECURSIVE MultiWrite(_, _, _, _)
MultiWrite(ws, m, bad, r) ==
  IF ws = <<>> THEN r
  ELSE LET h == Head(ws)
           r1 == IF h = NoopHandler THEN r ELSE [r EXCEPT ![h] = Append(@, m)]
       IN IF h \in bad THEN r1 ELSE MultiWrite(Tail(ws), m, bad, r1)

\* if l.IsFilterSet(f) { l.Printf(...) }: Printf formats the message and calls
\* Write of the logger's writer once
doPrintf(f, bad) ==
  /\ Len(lmsgs) < MaxMsgs
  /\ lmsgs' = Append(lmsgs, f)
  /\ lrecv' = IF IsFilterSet(f)
              THEN MultiWrite(lwriters, Len(lmsgs) + 1, bad, lrecv)
              ELSE lrecv
  /\ UNCHANGED <<lhandlers, lwriters, lfilter, fhvars, reg, tmr>>

\* the severities messages are logged at, the filters set and the handlers that
\* fail during one message
Severities == {EmergSeverity, InfoSeverity, DebugSeverity}
Filters == {0, AllSeverity, InfoSeverity + CritSeverity,
            AllSeverity - InfoSeverity}
Failing == {{}} \cup {{h} : h \in HandlerIds}

\* a logger of the registry whose handlers are sinks that take a message or fail;
\* no file handler is at work
InitLog ==
  /\ InitOf({0}, {0}, {<<>>}) /\ TimerIdle /\ ~compress /\ ~daily
  /\ budget = Run(0, 0, 0, 0, 0, 0)

NextLog ==
  \/ \E h \in HandlerIds : registerHandler(h)
  \/ \E h \in HandlerIds : RemoveHandler(h)
  \/ \E f \in Filters : SetFilter(f)
  \/ \E f \in Severities : \E bad \in Failing : doPrintf(f, bad)

SpecLog == InitLog /\ [][NextLog]_vars

\* ------------------------------------------------------------- registry
\* mu.RLock(); lg, ok := loggers4go[name]; mu.RUnlock(); return lg when ok
GetLookup(g, name) ==
  /\ gpc[g] = "idle" /\ gcalls[g] < MaxGets
  /\ mu = Nil
  /\ gcalls' = [gcalls EXCEPT ![g] = @ + 1]
  /\ IF loggers4go[name] # Nil
     THEN /\ rets' = rets \cup {<<name, loggers4go[name]>>}
          /\ UNCHANGED <<gpc, glg>>
     ELSE /\ gpc' = [gpc EXCEPT ![g] = "miss"]
          /\ glg' = [glg EXCEPT ![g] = [name |-> name, lg |-> Nil]]
          /\ UNCHANGED rets
  /\ UNCHANGED <<loggers4go, mu, ninst, fhvars, lgr, tmr>>

\* lg = newLogger(...); lg.filter = AllSeverity; mu.Lock()
GetCreate(g) ==
  /\ gpc[g] = "miss"
  /\ mu = Nil
  /\ mu' = g
  /\ ninst' = ninst + 1
  /\ glg' = [glg EXCEPT ![g].lg = ninst + 1]
  /\ gpc' = [gpc EXCEPT ![g] = "locked"]
  /\ UNCHANGED <<loggers4go, gcalls, rets, fhvars, lgr, tmr>>

\* loggers4go[name] = lg; the deferred mu.Unlock(); return lg
GetStore(g) ==
  /\ gpc[g] = "locked"
  /\ loggers4go' = [loggers4go EXCEPT ![glg[g].name] = glg[g].lg]
  /\ mu' = Nil
  /\ rets' = rets \cup {<<glg[g].name, glg[g].lg>>}
  /\ gpc' = [gpc EXCEPT ![g] = "idle"]
  /\ UNCHANGED <<glg, gcalls, ninst, fhvars, lgr, tmr>>

\* goroutines that call Get; no logger logs and no file handler is at work
NextReg ==
  \/ \E g \in Getters : \E name \in LogNames : GetLookup(g, name)
  \/ \E g \in Getters : GetCreate(g)
  \/ \E g \in Getters : GetStore(g)

SpecReg == InitLog /\ [][NextReg]_vars

\* ------------------------------------------------- failing daily rotation
\* a handler with daily rotation on whose timer fires twice, one rename or open
\* failing, and Writes in between
DailyRun == Run(MaxWrites - 1, MaxFires, 0, 0, MaxFaults, 0)
InitDaily ==
  /\ InitOf({0}, {1}, {<<Live>>}) /\ TimerIdle
  /\ ~compress /\ daily
  /\ budget = DailyRun

NextDaily ==
  \/ NewFind
  \/ NewReturn
  \/ \E t \in Threads : RotBegin(t)
  \/ \E t \in Threads : RotRename(t)
  \/ \E t \in Threads : RotOpen(t)
  \/ \E w \in Writers : WriteOut(w)
  \/ \E w \in Writers : WriteLock(w)
  \/ \E w \in Writers : WriteAdd(w)
  \/ \E w \in Writers : WriteReturn(w)
  \/ \E d \in Loops : DailyFire(d)
  \/ \E d \in Loops : DailyAfter(d)

SpecDaily == InitDaily /\ [][NextDaily]_vars

\* -------------------------------------------------- crowded directories
\* the live file and the k retired files path.1, path.2, ... a previous run
\* left, the numbers going round the byte: k = ByteMod is a file for every value
CrowdedDisk(k) ==
  <<Live>> \o [i \in 1..k |-> Rot((defStartSeq + i - 1) % ByteMod)]

\* construction in a directory with any number of retired files
InitFind ==
  /\ InitOf({0}, Rotates, {CrowdedDisk(k) : k \in 0..ByteMod}) /\ TimerIdle
  /\ ~compress /\ ~daily
  /\ budget = Run(0, 0, 0, 0, 0, 0)

NextFind ==
  \/ NewFind
  \/ NewReturn
  \/ RotBegin(Ctor)
  \/ RotRename(Ctor)
  \/ RotOpen(Ctor)

SpecFind == InitFind /\ [][NextFind]_vars

\* ---------------------------------------------------------- daily timer
\* the values of time.Now().Clock()
Clocks == (0..23) \X (0..59) \X (0..59)

\* faulty variant: the hours left are counted from 23
DelayFrom23(h, m, s) == (23 - h) * 3600 - m * 60 - 1 * s
\* (24-h)*3600-m*60-1*s, the count of time.Second the timer is made with
Delay(h, m, s) == (24 - h) * 3600 - m * 60 - 1 * s

\* h, m, s := time.Now().Clock(); d := time.Duration(...) * time.Second;
\* t := time.NewTimer(d)
ArmTimer ==
  /\ delay = <<>>
  /\ delay' = <<Delay(now[1], now[2], now[3])>>
  /\ UNCHANGED <<now, fhvars, lgr, reg>>

\* the loop reads the clock at any time of the day
InitClock ==
  /\ InitOf({0}, {0}, {<<>>}) /\ ~compress /\ daily
  /\ budget = Run(0, 0, 0, 0, 0, 0)
  /\ now \in Clocks /\ delay = <<>>

SpecClock == InitClock /\ [][ArmTimer]_vars

\* ------------------------------------------------------------ fairness
\* Writes whose rotation may fail, a setter call, a SetDaily call and a fire of
\* the daily timer, on a handler nobody closes
LiveRun == Run(MaxWrites - 1, 1, MaxSets, 1, MaxFaults, 0)
InitLive ==
  /\ InitOf({2 * RecLen}, {1}, {<<Live>>}) /\ TimerIdle
  /\ budget = LiveRun /\ ~compress

NextLive ==
  \/ NewFind
  \/ NewReturn
  \/ \E t \in Threads : RotBegin(t)
  \/ \E t \in Threads : RotRename(t)
  \/ \E t \in Threads : RotOpen(t)
  \/ \E w \in Writers : WriteOut(w)
  \/ \E w \in Writers : WriteLock(w)
  \/ \E w \in Writers : WriteAdd(w)
  \/ \E w \in Writers : WriteRotated(w)
  \/ \E w \in Writers : WriteReturn(w)
  \/ \E v \in {0, RecLen} : SetSize(v)
  \/ \E v \in Rotates : SetRotate(v)
  \/ \E v \in BOOLEAN : SetCompress(v)
  \/ \E v \in SetSeqValues : SetSeq(v)
  \/ \E v \in BOOLEAN : SetDaily(v)
  \/ \E d \in Loops : DailyFire(d)
  \/ \E d \in Loops : DailyAfter(d)
  \/ \E n \in gzq : Gzip(n)

\* a goroutine that is inside Write or rotateLog is scheduled again; nothing
\* makes a caller start a Write, call a setter, or the timer fire
Running ==
  \/ \E t \in Threads : RotBegin(t) \/ RotRename(t) \/ RotOpen(t)
  \/ \E w \in Writers :
        WriteLock(w) \/ WriteAdd(w) \/ WriteRotated(w) \/ WriteReturn(w)

SpecLive == InitLive /\ [][NextLive]_vars /\ WF_vars(Running)

\* =============================================================== claims
Quiet == cpc = "ready" /\ \A t \in Threads : rl[t].pc = "idle"
NoWrite == \A w \in Writers : wpc[w] = "idle"
Calls == LET RECURSIVE Sum(_)
             Sum(n) == IF n = 0 THEN 0 ELSE wcalls[n] + Sum(n - 1)
         IN Sum(NWriters)

C3_SeqInRange ==
  (Quiet /\ rotate > 0) => (1 <= seq /\ seq <= rotate)

\* C4: the rotation of newFileHandler never renames the live file onto a
\* retirement name that is on disk already.
C4_NoClobberOnStartup == ~hist.clob

\* C5: as long as maxFiles has been 0 since construction, no rotateLog call has
\* renamed the live file, the retired names on disk are those found at startup,
\* no compression was launched and the live path names the file it named first.
C5_RotationDisabled ==
  ~hist.everRot =>
    /\ hist.retired = <<>>
    /\ Names \ {Live} = hist.disk0 \ {Live}
    /\ gzq = {}
    /\ (Live \in hist.disk0 => <<Live, 1>> \in dir)
    /\ \A e \in dir : e[1] = Live => e[2] <= Cardinality(hist.disk0) + 1

C5_Witness ==
  /\ ~hist.everRot /\ cpc = "ready"
  /\ size > 0 /\ written > size
  /\ Len(files[Ino(Live)]) >= MaxWrites

\* C6: when the callers' Writes have all returned without error, no rotateLog was
\* called after construction, the live file holds every record once and whole,
\* and bytesWritten is the number of calls times the record length.
CallerRecords(c) == SelectSeq(c, LAMBDA r : r[1] # 0)
C6_ConcurrentWrites ==
  (cpc = "ready" /\ NoWrite /\ hist.postRots = 0 /\ hist.failed = 0) =>
    /\ written = RecLen * Calls
    /\ Exists(Live)
    /\ LET c == CallerRecords(files[Ino(Live)]) IN
         /\ Len(c) = Calls
         /\ \A w \in Writers : \A k \in 1..wcalls[w] :
              \E i \in 1..Len(c) : c[i] = <<w, k, RecLen>>

C6_Witness ==
  /\ cpc = "ready" /\ NoWrite /\ hist.postRots = 0 /\ hist.failed = 0
  /\ \A w \in Writers : wcalls[w] >= 1
  /\ Calls = MaxWrites
  /\ written = RecLen * MaxWrites

\* C7: no caller makes its underlying file write on a handle that the rotateLog
\* call of another thread has closed.
C7_NoTornRotation == \A w \in Writers : ~wobs[w].torn

\* C8: when the handler is constructed and no rotation is under way, fh.out is an
\* open handle, it is the only open handle, and no handle was closed twice.
C8_OneOpenHandle ==
  Quiet =>
    /\ out # Nil /\ handles[out].open
    /\ \A h \in 1..Len(handles) : handles[h].open => h = out
    /\ \A h \in 1..Len(handles) : handles[h].closes <= 1

\* C9: at most one rotateDaily goroutine is running.
C9_OneDailyLoop == Cardinality({d \in Loops : dpc[d] \in {"armed", "rot"}}) <= 1

\* C10: Close terminates; called on an open handle it has closed that handle
\* exactly once when it returns.
C10_CloseTerminates ==
  /\ closepc # "fatal"
  /\ (closepc = "returned" /\ hist.closeH # Nil) =>
       (~handles[hist.closeH].open /\ handles[hist.closeH].closes = 1)

\* C11: a Write whose underlying file write takes fewer bytes than the record has
\* returns at once with n and an error: the bytes are not written again,
\* bytesWritten is not incremented, the mutex is not taken and the rotation
\* predicate not evaluated, and sequence and active handle stay as they are.
C11_ShortWrite ==
  [][\A w \in Writers :
       (wcalls'[w] = wcalls[w] + 1 /\ wobs'[w].hopen /\ wn'[w] < RecLen) =>
         /\ wpc'[w] = "idle" /\ wobs'[w].err # "nil"
         /\ written' = written /\ seq' = seq /\ out' = out
         /\ mutex' = mutex /\ rl' = rl
         /\ files' = IF wn'[w] = 0 THEN files
                     ELSE [files EXCEPT ![handles[out].ino] =
                             Append(@, <<w, wcalls'[w], wn'[w]>>)]]_vars

C11_Witness ==
  \E w \in Writers :
    /\ wpc[w] = "idle" /\ wobs[w].hopen /\ wobs[w].err = "write"
    /\ wn[w] > 0 /\ wn[w] < RecLen
    /\ written > 0

\* a rotateLog call made by Write fails at its rename, resp. returns to Write
RenameFails(w) == rl[w].pc = "rename" /\ rl'[w].pc = "done" /\ rl'[w].at = "rename"
ReturnsFrom(w, step) == wpc[w] = "rot" /\ wpc'[w] = "ret" /\ rl[w].at = step
\* a caller starts a Write while fh.out is a closed handle
WritesOnClosed(w) ==
  wcalls'[w] = wcalls[w] + 1 /\ out # Nil /\ ~handles[out].open

\* C12: when the rename of a rotation made by Write fails, that Write returns the
\* error; the sequence is not incremented, bytesWritten is not reset, no handle is
\* opened, fh.out stays the handle the rotation closed, and every Write made while
\* fh.out is that closed handle fails without writing.
C12_RenameFailure ==
  [][\A w \in Writers :
       /\ RenameFails(w) =>
            seq' = seq /\ dir' = dir /\ handles' = handles /\ out' = out
       /\ ReturnsFrom(w, "rename") =>
            /\ wobs'[w].err = "rename"
            /\ seq' = seq /\ written' = written /\ out' = out
            /\ handles' = handles
            /\ (out = wobs[w].h => ~handles[out].open)
       /\ WritesOnClosed(w) =>
            /\ wpc'[w] = "idle" /\ wobs'[w].err = "write"
            /\ files' = files /\ written' = written /\ out' = out]_vars

\* after a Write failed at the rename with the live file in place, another
\* caller's Write has failed on the closed handle
C12_Witness ==
  \E w, v \in Writers :
    /\ w # v /\ wpc[w] = "idle" /\ wpc[v] = "idle"
    /\ wobs[w].err = "rename" /\ wobs[w].rots = 1 /\ wobs[w].h = out
    /\ wobs[v].err = "write" /\ wobs[v].h = out /\ ~wobs[v].hopen
    /\ Exists(Live) /\ written >= size /\ hist.failed = 2

\* a rotateLog call made by Write fails at os.OpenFile
OpenFails(w) == rl[w].pc = "open" /\ rl'[w].pc = "done" /\ rl'[w].at = "open"

\* C13: when a rotation made by Write has renamed the live file and then fails to
\* open the live path, the live file is retired and the sequence advanced already;
\* that Write returns the error, bytesWritten and fh.out are left as they are, and
\* fh.out is the handle the rotation closed, on which every Write fails.
C13_ReopenFailure ==
  [][\A w \in Writers :
       /\ (OpenFails(w) /\ rl[w].renamed) =>
            /\ seq' = seq /\ dir' = dir /\ handles' = handles /\ out' = out
            /\ ~hist.overlap =>
                 /\ seq = (rl[w].name + 1) % ByteMod
                 /\ ~Exists(Live)
                 /\ Exists(Rot(rl[w].name)) \/ Exists(Gz(rl[w].name))
       /\ (ReturnsFrom(w, "open") /\ rl[w].renamed) =>
            /\ wobs'[w].err = "open"
            /\ seq' = seq /\ written' = written /\ out' = out
            /\ handles' = handles
            /\ (out = wobs[w].h => ~handles[out].open)]_vars

\* after a Write failed at the open with the live file retired, another caller's
\* Write has failed on the closed handle
C13_Witness ==
  \E w, v \in Writers :
    /\ w # v /\ wpc[w] = "idle" /\ wpc[v] = "idle"
    /\ wobs[w].err = "open" /\ wobs[w].rots = 1 /\ wobs[w].h = out
    /\ wobs[v].err = "write" /\ wobs[v].h = out /\ ~wobs[v].hopen
    /\ ~Exists(Live) /\ hist.postRots = 1 /\ hist.failed = 2
    /\ Len(hist.retired) > 0
    /\ seq = hist.retired[Len(hist.retired)] + 1

\* C14: once a Write has returned the error of its rotation, fh.out is a usable
\* handle (the one the rotation opened, or the one in use before the rotation), so
\* that a later Write can succeed.
C14_UsableAfterFailure ==
  \A w \in Writers :
    (wpc[w] = "idle" /\ wobs[w].err \in {"rename", "open"}) =>
      out # Nil /\ handles[out].open

\* C15: a rotateDaily loop ends only by completing a rotation while daily is off,
\* and it completes exactly one such rotation: a loop that has exited has made one
\* rotation with the flag off, and a loop that is armed or rotating has made none
\* (it neither stops before the fire that follows SetDaily(false) nor re-arms
\* after it).
C15_DailyLoopExit ==
  \A d \in Loops :
    /\ dpc[d] = "exited" => hist.offRots[d] = 1
    /\ dpc[d] \in {"armed", "rot"} => hist.offRots[d] = 0
    /\ dpc[d] = "none" => hist.offRots[d] = 0

\* the loop started by newFileHandler rotated with the flag on and re-armed, then
\* SetDaily(false) was called, it rotated once more and ended
C15_Witness ==
  /\ dpc[FirstLoop] = "exited" /\ dpc[FirstLoop + 1] = "none"
  /\ ~daily /\ hist.offRots[FirstLoop] = 1
  /\ hist.postRots = 2 /\ Calls = 0

\* C16: a rotation that has renamed the live file with compress set starts the
\* compression of path.N and goes on to open the live path; it returns the new
\* open handle of the live file whether the task has run or not; and the step in
\* which the task succeeds leaves path.N.gz on disk and no path.N.
C16_CompressDetached ==
  [][/\ \A t \in Threads :
          /\ (rl[t].pc = "rename" /\ rl'[t].renamed /\ compress) =>
               rl[t].name \in gzq' /\ rl'[t].pc = "open"
          /\ (rl[t].pc = "open" /\ rl'[t].pc = "done" /\ ~rl'[t].err) =>
               /\ gzq' = gzq
               /\ handles'[rl'[t].f].open
               /\ <<Live, handles'[rl'[t].f].ino>> \in dir'
     /\ \A n \in gzq \ gzq' :
          dir' # dir => (Exists(Gz(n)))' /\ ~(Exists(Rot(n)))'
    ]_vars

\* a Write has got the new handle from its rotation to path.2 while the
\* compression of path.2 has not run, and the one of path.1 has succeeded
C16_Witness ==
  \E w \in Writers :
    /\ wpc[w] = "ret" /\ wobs[w].rots = 1 /\ wobs[w].err = "nil"
    /\ compress /\ rotate = 2 /\ hist.retired = <<1, 2>>
    /\ 2 \in gzq /\ Exists(Rot(2)) /\ Exists(Gz(1)) /\ ~Exists(Rot(1))
    /\ out # Nil /\ handles[out].open /\ out # wobs[w].h

\* the places (file, index) of the whole records of caller w's call k in the
\* files that are on disk; a file is older in the log than every file created
\* after it, and files are numbered as they are created
Places(w, k) ==
  {<<e[2], i>> : e \in dir, i \in 1..(MaxWrites + 1)} \cap
  {p \in (1..Len(files)) \X (1..(MaxWrites + 1)) :
     p[2] <= Len(files[p[1]]) /\ files[p[1]][p[2]] = <<w, k, RecLen>>}
Before(p, q) == p[1] < q[1] \/ (p[1] = q[1] /\ p[2] < q[2])

\* C17: of two records one caller wrote in successive successful Writes, the one
\* written first is before the other in the log: in an older file, or earlier in
\* the same file.
C17_PerCallerOrder ==
  \A w \in Writers : \A k \in 1..wcalls[w] : \A j \in 1..wcalls[w] :
    k < j => \A p \in Places(w, k) : \A q \in Places(w, j) : Before(p, q)

\* C18: a handler started in a directory without retired files, whose maxFiles =
\* F > 0 and sequence no setter has changed, has every retired file named path.n
\* or path.n.gz with n in 1..F: at most F generations are on disk.
C18_RetentionBound ==
  (rotate > 0 /\ hist.disk0 \subseteq {Live} /\ ~hist.seqSet) =>
    \A e \in dir : e[1] = Live \/ \E n \in 1..rotate : e[1] \in {Rot(n), Gz(n)}

\* a message is logged in this step and passes the filter
Logged == Len(lmsgs') = Len(lmsgs) + 1 /\ IsFilterSet(lmsgs'[Len(lmsgs')])
\* handler h has its Write called with the message logged in this step
Receives(h) == lrecv'[h] = Append(lrecv[h], Len(lmsgs'))

\* C19: a message that passes the filter is handed to every registered handler,
\* whichever handler's Write returns an error for it.
C19_FanOutIndependent ==
  [][Logged => \A i \in 1..Len(lhandlers) : Receives(lhandlers[i])]_vars

\* the eight severity levels, and whether the bit of level s is set in filter g
Levels == {EmergSeverity, AlertSeverity, CritSeverity, ErrSeverity,
           WarningSeverity, NoticeSeverity, InfoSeverity, DebugSeverity}
BitOf(s, g) == (g \div s) % 2 = 1

\* C20: a new logger has the filter AllSeverity; IsFilterSet of a level is true
\* exactly when the bit of the level is set in the filter; and a message logged
\* at a level is handed to the logger's writer if the bit of its level is set in
\* the filter, and to no handler if it is not.
C20_SeverityFilter ==
  /\ lfilter = AllSeverity
  /\ [](\A s \in Levels : IsFilterSet(s) <=> BitOf(s, lfilter))
  /\ [][Len(lmsgs') = Len(lmsgs) + 1 =>
          IF BitOf(lmsgs'[Len(lmsgs')], lfilter)
          THEN /\ lwriters[1] # NoopHandler => Receives(lwriters[1])
               /\ \A h \in HandlerIds : lrecv'[h] = lrecv[h] \/ Receives(h)
          ELSE lrecv' = lrecv]_vars

\* with the filter Info|Crit set, a message at Emerg reached no handler and a
\* message at Info reached both handlers
C20_Witness ==
  /\ lfilter = InfoSeverity + CritSeverity
  /\ lmsgs = <<EmergSeverity, InfoSeverity>>
  /\ Len(lhandlers) = 2 /\ lwriters = lhandlers
  /\ \A i \in 1..2 : lrecv[lhandlers[i]] = <<2>>

\* C21: all calls of Get for one name return the same instance, and the registry
\* holds, for every name returned so far, the instance that was returned.
C21_OneInstancePerName ==
  \A r \in rets :
    /\ \A q \in rets : q[1] = r[1] => q[2] = r[2]
    /\ loggers4go[r[1]] = r[2]

\* C22: a message logged through the logger is written only to handlers that
\* are in Handlers() at that moment: a handler taken out by RemoveHandler gets
\* none of the messages logged after the call returned.
C22_RemovedGetsNothing ==
  [][\A h \in HandlerIds :
       (Logged /\ lrecv'[h] # lrecv[h]) =>
         \E i \in 1..Len(lhandlers) : lhandlers[i] = h]_vars

\* C23: a message that passes the filter goes nowhere while the logger is as
\* created (no handler registered), and is written exactly once to every
\* handler registered with the logger otherwise.
C23_EveryHandlerOnce ==
  [][Logged =>
       /\ (lhandlers = <<>> /\ lwriters = <<NoopHandler>>) => lrecv' = lrecv
       /\ \A k \in 1..Len(lhandlers) :
            LET got == lrecv'[lhandlers[k]]
            IN Cardinality({i \in 1..Len(got) : got[i] = Len(lmsgs')}) = 1]_vars

\* C24: when the construction of the file handler fails, AddFileHandler hands
\* out no handler, the logger's handler list and writer are as before the call,
\* and no daily-rotation loop runs, whatever the daily flag asked for.
C24_FailedConstruction ==
  [][cpc' = "failed" =>
       /\ lhandlers' = lhandlers /\ lwriters' = lwriters
       /\ \A i \in 1..Len(lhandlers') : lhandlers'[i] # FileH
       /\ out' = Nil
       /\ \A d \in Loops : dpc'[d] = "none"]_vars

C24_Witness == cpc = "failed" /\ daily /\ lwriters = <<NoopHandler>>

\* C25: whoever runs rotateLog on a constructed handler, a Write or the daily
\* loop, holds the handler's mutex for the whole of it.
C25_RotateUnderLock ==
  \A t \in Writers \cup Loops : Started(t) => mutex = t

\* C26: the increment of bytesWritten by a Write is atomic: the value the Write
\* stores is the value bytesWritten has at that moment plus the bytes written,
\* so no reset to 0 made in between is lost.
C26_NoLostUpdate ==
  [][\A w \in Writers :
       (wpc[w] = "add" /\ wpc'[w] # "add") => written' = written + wn[w]]_vars

\* the bytes of the records the handler's Writes appended to a file
RECURSIVE SinkBytes(_)
SinkBytes(c) ==
  IF c = <<>> THEN 0
  ELSE (IF Head(c)[1] # 0 THEN Head(c)[3] ELSE 0) + SinkBytes(Tail(c))

\* C27: when no Write and no rotation is under way, bytesWritten is the number
\* of bytes the handler's Writes appended to the live file since the rotation
\* that created it (maxFiles > 0 from construction on, nothing failed).
C27_WrittenIsLiveBytes ==
  (cpc = "ready" /\ NoWrite /\ Quiet /\ rotate > 0 /\ ~hist.seqSet
     /\ hist.failed = 0 /\ Exists(Live)) =>
    written = SinkBytes(files[Ino(Live)])

\* C28: a fire of the daily timer makes the loop call rotateLog; when rotateLog
\* has returned the loop sets bytesWritten to 0, whether it returned an error or
\* not, and arms the timer again unless the daily flag is off.
C28_DailyResetAlways ==
  [][\A d \in Loops :
       /\ (dpc[d] = "armed" /\ dpc'[d] # "armed") =>
            (dpc'[d] = "rot" /\ rl'[d].pc = "begin")
       /\ (dpc[d] = "rot" /\ dpc'[d] # "rot") =>
            /\ rl[d].pc = "done"
            /\ written' = 0
            /\ dpc'[d] = IF daily THEN "armed" ELSE "exited"]_vars

\* a loop is armed again after its rotation failed: the nil handle it stored is
\* still in fh.out
C28_Witness ==
  /\ cpc = "ready" /\ daily /\ out = Nil /\ written = 0
  /\ \E d \in Loops : dpc[d] = "armed"
  /\ \E w \in Writers : wcalls[w] > 0

\* C29: a Write goes into rotateLog exactly when, at its check under the mutex,
\* daily rotation is off, maxFiles > 0, maxSize > 0 and bytesWritten has reached
\* maxSize; with the daily flag set it never does and bytesWritten keeps the sum.
C29_DailyExcludesSize ==
  [][\A w \in Writers :
       /\ (wpc[w] = "add" /\ wpc'[w] # "add") =>
            /\ wpc'[w] = "rot" <=>
                 (~daily /\ rotate > 0 /\ size > 0 /\ written' >= size)
            /\ daily => (wpc'[w] = "ret" /\ written' = wobs[w].cum)
       /\ wpc'[w] = "rot" => ~daily']_vars

C29_Witness ==
  \E w \in Writers :
    /\ wpc[w] = "ret" /\ daily /\ rotate > 0 /\ size > 0
    /\ written >= size /\ wobs[w].rots = 0

\* the daily-rotation loops started so far
NLoops == Cardinality({d \in Loops : dpc[d] # "none"})

\* C30: a step starts a daily-rotation loop, and only one, exactly when it turns
\* the daily flag from off to on or completes a successful construction with
\* daily set; SetDaily(true) on a set flag, SetDaily(false) and a failed
\* construction start none.
C30_LoopStartedOnTurnOn ==
  [][LET NLoopsNext == Cardinality({d \in Loops : dpc'[d] # "none"})
     IN NLoopsNext = NLoops +
          (IF (~daily /\ daily') \/ (cpc = "rot" /\ cpc' = "ready" /\ daily)
           THEN 1 ELSE 0)]_vars

\* SetDaily(true) was called on a set flag and SetDaily(false) before or after
\* it: the loop of the first turning on is the only one
C30_Witness ==
  /\ cpc = "ready" /\ hist.reSet /\ NLoops = 1
  /\ ~daily /\ budget.toggles = 0

\* C31: a rotation that finds no file at the live path goes on to the open
\* without an error: it renames nothing, makes no path.N, starts no compression,
\* and its open, when it succeeds, creates the live file and returns a new open
\* handle on it.
C31_MissingSource ==
  [][\A t \in Threads :
       /\ (rl[t].pc = "begin" /\ rl'[t].pc # "begin" /\ ~Exists(Live)) =>
            /\ rl'[t].pc = "open" /\ ~rl'[t].err
            /\ dir' = dir /\ gzq' = gzq /\ hist'.retired = hist.retired
       /\ (rl[t].pc = "open" /\ rl'[t].pc = "done" /\ ~rl'[t].err
             /\ ~Exists(Live)) =>
            /\ dir' = dir \cup {<<Live, Len(files) + 1>>}
            /\ files' = Append(files, <<>>)
            /\ rl'[t].f = Len(handles) + 1
            /\ handles'[rl'[t].f] = [ino |-> Len(files) + 1, open |-> TRUE,
                                      closes |-> 0]
            /\ gzq' = gzq /\ hist'.retired = hist.retired]_vars

\* a handler built with maxFiles > 0 where no file was: nothing retired, the
\* live file created empty and open
C31_Witness ==
  /\ cpc = "ready" /\ rotate > 0 /\ hist.disk0 = {} /\ hist.retired = <<>>
  /\ out # Nil /\ handles[out].open
  /\ dir = {<<Live, handles[out].ino>>} /\ files[handles[out].ino] = <<>>

\* C32: a step of the compression task, whether gzip made path.N.gz or failed,
\* leaves alone everything a Write's result depends on: sequence, bytesWritten,
\* the active handle and the open files, the live path, the mutex, and the
\* position, count and observed result of every Write and rotation in progress.
C32_CompressSilent ==
  [][(gzq' # gzq /\ gzq' \subseteq gzq) =>
       /\ UNCHANGED <<seq, written, out, handles, files, mutex, wpc, wn, wcalls,
                      rl, wobs, cpc, dpc, budget, policy>>
       /\ {e \in dir' : e[1] = Live} = {e \in dir : e[1] = Live}
       /\ hist'.failed = hist.failed]_vars

\* gzip has failed on the file a Write retired (path.N is still there, no
\* path.N.gz, no task left) and the Write returns without error
C32_Witness ==
  \E w \in Writers :
    /\ wpc[w] = "ret" /\ wobs[w].rots = 1 /\ wobs[w].err = "nil"
    /\ compress /\ ~daily /\ Calls >= 2 /\ gzq = {}
    /\ hist.retired # <<>>
    /\ LET n == hist.retired[Len(hist.retired)]
       IN Exists(Rot(n)) /\ ~Exists(Gz(n))
    /\ out # Nil /\ handles[out].open

\* the directory entries under which record r of a Write can be read: the live
\* path and path.1 .. path.rotate
Holds(e, r) ==
  /\ e[1] = Live \/ \E n \in 1..rotate : e[1] = Rot(n)
  /\ \E i \in 1..Len(files[e[2]]) : files[e[2]][i] = r

\* C33: with maxFiles = F > 0 left as it is, compression off and at most F
\* rotations since construction, once every Write has returned and none has
\* returned an error, the record of every Write is in exactly one of the live
\* file and path.1 .. path.F.
C33_NoRecordLost ==
  (cpc = "ready" /\ NoWrite /\ Quiet /\ rotate > 0 /\ ~compress /\ ~hist.seqSet
     /\ hist.failed = 0 /\ hist.postRots <= rotate) =>
    \A w \in Writers : \A k \in 1..wcalls[w] :
      Cardinality({e \in dir : Holds(e, <<w, k, RecLen>>)}) = 1

\* C34: under fair scheduling a Write that has started returns, and the mutex,
\* once taken by a Write or a setter, is released again, also when the rotation
\* inside the Write fails.
C34_WriteReturns ==
  /\ \A w \in Writers : (wpc[w] # "idle") ~> (wpc[w] = "idle")
  /\ (mutex # Nil) ~> (mutex = Nil)

\* a Write whose rotation failed has returned and the mutex is free
C34_Witness ==
  \E w \in Writers :
    /\ wpc[w] = "idle" /\ wobs[w].rots = 1 /\ wobs[w].err \in {"rename", "open"}
    /\ mutex = Nil

\* seconds from the wall-clock time c to the next midnight, a day having 86400
SecondsOfDay(c) == c[1] * 3600 + c[2] * 60 + c[3]
ToMidnight(c) == 86400 - SecondsOfDay(c)

\* C35: the delay the daily loop arms its timer with is the number of seconds
\* to the next midnight of the wall clock it read, and lies in 1..86400.
C35_DelayToMidnight ==
  delay # <<>> =>
    (delay[1] = ToMidnight(now) /\ delay[1] >= 1 /\ delay[1] <= 86400)

\* armed one second before midnight
C35_Witness == now = <<23, 59, 59>> /\ delay = <<1>>

\* C36: no rotation retires the live file to path.0: the name of no retirement
\* is made of sequence 0 and no file path.0 exists.
C36_NoPathZero ==
  /\ \A i \in 1..Len(hist.retired) : hist.retired[i] # 0
  /\ ~Exists(Rot(0))

\* C37: findSequence stops for every content of the directory, so construction
\* is never left inside it.
C37_FindSequenceStops == cpc # "hang"

\* C38: the daily loop stores no handle when its rotation failed and the new
\* open handle when it succeeded; a Write that starts while there is no handle
\* returns an error and leaves bytesWritten, sequence and files as they are, and
\* a Write that starts on the handle a later rotation stored is written in full.
C38_NilAfterDailyFailure ==
  [][/\ \A d \in Loops :
          (dpc[d] = "rot" /\ dpc'[d] # "rot") =>
            IF rl[d].err THEN out' = Nil
            ELSE out' = rl[d].f /\ out' # Nil /\ handles'[out'].open
     /\ \A w \in Writers :
          (wcalls'[w] = wcalls[w] + 1) =>
            /\ out = Nil =>
                 /\ wpc'[w] = "idle" /\ wobs'[w].err # "nil"
                 /\ written' = written /\ seq' = seq /\ files' = files
            /\ (out # Nil /\ handles[out].open /\ budget.faults = 0) =>
                 /\ wobs'[w].err = "nil" /\ wn'[w] = RecLen]_vars

\* one caller's Write found no handle, after which the timer fired again and
\* the other caller's Write went through the handle that rotation stored
C38_Witness ==
  \E w \in Writers : \E u \in Writers :
    /\ wcalls[w] > 0 /\ wobs[w].h = Nil /\ wobs[w].err # "nil"
    /\ wpc[u] = "idle" /\ wcalls[u] > 0 /\ wobs[u].err = "nil"
    /\ out # Nil /\ wobs[u].h = out /\ handles[out].open
    /\ budget.fires = 0

\* the fields of the policy a step changes
Changed ==
  {f \in {"size", "rotate", "compress", "seq"} :
     \/ f = "size" /\ size' # size
     \/ f = "rotate" /\ rotate' # rotate
     \/ f = "compress" /\ compress' # compress
     \/ f = "seq" /\ seq' # seq}

\* C39: a call of SetSize, SetRotate, SetCompress or SetSeq changes at most one
\* of the four fields and nothing else of the handler: bytesWritten, the active
\* handle, the daily flag, directory, files and handles stay, no rotation, Write,
\* loop or compression is started or moved.
C39_SetterFrame ==
  [][(budget'.sets = budget.sets - 1) =>
       /\ Cardinality(Changed) <= 1
       /\ UNCHANGED <<written, out, daily, mutex, dir, files, handles, cpc, wpc,
                      wn, wcalls, rl, dpc, gzq, closepc, depth, wobs>>]_vars

\* SetSize has made the size-rotation predicate true for the current count and
\* nothing has rotated
C39_Witness ==
  /\ size = RecLen /\ written >= size /\ rotate > 0 /\ ~daily
  /\ NoWrite /\ Quiet /\ hist.postRots = 0 /\ budget.sets = 0
  /\ out # Nil /\ handles[out].open

====
